---- MODULE Spec2Model ----
(***************************************************************************)
(* A model of the menu-scan backend: the in-memory scan-job registry       *)
(* (app/main.py), the token service (app/auth.py), the identity resolver   *)
(* (app/dependencies.py) and the handlers that write the relational store  *)
(* (signup, login, add_favorite).                                          *)
(*                                                                         *)
(* Time.  `now` is the host's wall clock in ticks; Res ticks make one      *)
(* second.  time.time() and datetime.utcnow() both read it.  The wall      *)
(* clock normally advances (Tick) and can be set back (ClockSetBack).      *)
(*                                                                         *)
(* Requests.  The handlers are plain `def` functions, which FastAPI runs   *)
(* on a thread pool: handlers of different requests interleave at every    *)
(* access to shared state.  A handler that reads and then writes shared    *)
(* state is split at that point (pc[t] says where request thread t is).    *)
(***************************************************************************)
EXTENDS Integers, Sequences, FiniteSets, TLC

VARIABLES
    now,        \* the wall clock, in ticks
    pc,         \* pc[t]: where request thread t is in its handler
    loc,        \* loc[t]: the handler's local variables
    resp,       \* the response most recently sent by any handler
    jobs,       \* main.jobs: job id -> [created_at, results]
    generated,  \* every value uuid.uuid4() has produced in this process
    returned,   \* history: the scan_menu responses sent, as job records
    nReturned,  \* history: how many scan_menu responses were sent
    completed,  \* history: job id -> the results of its first Completed poll
    restaurants,\* the restaurants table (row ids)
    dishes,     \* the dishes table (row ids)
    users,      \* the users table: id -> [email, hashed_password]
    favorites,  \* the favorites table: id -> [user_id, dish_id]
    issued,     \* history: the tokens create_access_token has returned
    resolvedOk, \* history: the tokens get_current_user has resolved to a user
    revoked     \* history: the tokens of resolvedOk whose user row was deleted since

vars == <<now, pc, loc, resp, jobs, generated, returned, nReturned, completed,
          restaurants, dishes, users, favorites, issued, resolvedOk, revoked>>

jobVars == <<jobs, generated, returned, nReturned, completed>>
storeVars == <<users, favorites, issued, resolvedOk, revoked>>
menuVars == <<restaurants, dishes>>

----------------------------------------------------------------------------
(* Bounds of the model *)

Res == 2            \* clock ticks per second
MaxSeconds == 4     \* the clock is explored over 0..MaxSeconds seconds
NThreads == 2       \* concurrent request threads
MaxJobs == 2        \* scan_menu calls explored

MaxTtl == 2         \* explicit token lifetimes explored: 0..MaxTtl ticks
MaxTokens == 1      \* create_access_token calls explored by the token service's own specification
MaxUserId == 2      \* user row ids explored: 1..MaxUserId
MaxFavId == 3       \* favorite row ids explored: 1..MaxFavId

Threads == 1..NThreads
JobIdSpace == 1..MaxJobs    \* the values uuid4 can take here
StaleId == MaxJobs + 1      \* a job id from a previous process lifetime

(* Program constants *)
JOB_THRESHOLD_SECONDS == 3
SCAN_LIMIT == 5
SEED_RESTAURANTS == 3
SEED_DISHES == 6
ACCESS_TOKEN_EXPIRE_MINUTES == 43200

Min(a, b) == IF a < b THEN a ELSE b

Idle == [op |-> "none"]
NoResp == [op |-> "none"]

----------------------------------------------------------------------------
(* The clock *)

MaxClock == MaxSeconds * Res

\* Time passes: one tick.
Tick ==
    /\ now < MaxClock
    /\ now' = now + 1
    /\ UNCHANGED <<pc, loc, resp, jobVars, menuVars, storeVars>>

\* Time passes: one second.
TickSecond ==
    /\ now + Res <= MaxClock
    /\ now' = now + Res
    /\ UNCHANGED <<pc, loc, resp, jobVars, menuVars, storeVars>>

\* time.time() is the wall clock: "it can return a lower value than a
\* previous call if the system clock has been set back between the two calls".
\* The clock is set back one second (and again, for more).
ClockSetBack ==
    /\ now - Res >= 0
    /\ now' = now - Res
    /\ UNCHANGED <<pc, loc, resp, jobVars, menuVars, storeVars>>

----------------------------------------------------------------------------
(* The menu tables *)

\* seed(): only seeds if there are no restaurants yet.
Seed ==
    /\ restaurants = {}
    /\ restaurants' = 1..SEED_RESTAURANTS
    /\ dishes' = dishes \cup (1..SEED_DISHES)
    /\ UNCHANGED <<now, pc, loc, resp, jobVars, storeVars>>

\* db.query(models.Dish).limit(5).all(): the first rows of the table, by row id.
RECURSIVE Ascending(_)
Ascending(S) ==
    IF S = {} THEN <<>>
    ELSE LET m == CHOOSE x \in S : \A y \in S : x <= y
         IN  <<m>> \o Ascending(S \ {m})

QueryDishesLimit(D) == SubSeq(Ascending(D), 1, Min(SCAN_LIMIT, Cardinality(D)))

----------------------------------------------------------------------------
(* The job registry *)

\* uuid.uuid4(): a value no earlier call has produced.
Uuid4(gen) == JobIdSpace \ gen

\* elapsed < 3, on a job created at c and polled at n (both in ticks).
IsProcessingOffByOne(n, c) == n - c <= JOB_THRESHOLD_SECONDS * Res
IsProcessing(n, c) == n - c < JOB_THRESHOLD_SECONDS * Res

\* jobs.get(job_id); `if not job`: a stored job is a non-empty dict, so the
\* test is false exactly for a missing key.
JobFound(id) == id \in DOMAIN jobs

\* raise HTTPException(status_code=404, detail="Job not found")
UnknownJobAsProcessing(id) ==
    [op |-> "poll", http |-> 200, job_id |-> id,
     status |-> "processing", has_results |-> FALSE, results |-> <<>>]
UnknownJob(id) ==
    [op |-> "poll", http |-> 404, job_id |-> id,
     status |-> "", has_results |-> FALSE, results |-> <<>>]

\* jobs[job_id] = {...}: one dictionary store, atomic under the interpreter lock.
StoreJobLosingOthers(j, id, rec) == [k \in {id} |-> rec]
StoreJob(j, id, rec) == [k \in DOMAIN j \cup {id} |-> IF k = id THEN rec ELSE j[k]]

\* scan_menu, up to the query: job_id = str(uuid.uuid4()); dishes = db.query(...)
ScanBegin(t) ==
    /\ pc[t] = "idle"
    /\ nReturned + Cardinality({u \in Threads : pc[u] = "scan_store"}) < MaxJobs
    /\ \E id \in Uuid4(generated) :
          /\ loc' = [loc EXCEPT ![t] = [op |-> "scan", job_id |-> id,
                                        dishes |-> QueryDishesLimit(dishes),
                                        seen |-> nReturned]]
          /\ generated' = generated \cup {id}
    /\ pc' = [pc EXCEPT ![t] = "scan_store"]
    /\ UNCHANGED <<now, resp, jobs, returned, nReturned, completed, menuVars, storeVars>>

\* scan_menu, the store and the response.
ScanStore(t) ==
    /\ pc[t] = "scan_store"
    /\ LET rec == [created_at |-> now, results |-> loc[t].dishes]
       IN  /\ jobs' = StoreJob(jobs, loc[t].job_id, rec)
           /\ returned' = returned \cup {[job_id |-> loc[t].job_id, job |-> rec]}
    /\ nReturned' = nReturned + 1
    /\ resp' = [op |-> "scan", http |-> 200, job_id |-> loc[t].job_id,
                 overlapped |-> nReturned > loc[t].seen]
    /\ pc' = [pc EXCEPT ![t] = "idle"]
    /\ loc' = [loc EXCEPT ![t] = Idle]
    /\ UNCHANGED <<now, generated, completed, menuVars, storeVars>>

\* get_scan_result(job_id): a read of the map and of the clock.
PollResponse(id) ==
    IF ~JobFound(id)
    THEN UnknownJob(id)
    ELSE IF IsProcessing(now, jobs[id].created_at)
    THEN [op |-> "poll", http |-> 200, job_id |-> id,
          status |-> "processing", has_results |-> FALSE, results |-> <<>>]
    ELSE [op |-> "poll", http |-> 200, job_id |-> id,
          status |-> "completed", has_results |-> TRUE,
          results |-> jobs[id].results]

GetScanResult ==
    /\ \E id \in JobIdSpace \cup {StaleId} :
          LET r == PollResponse(id)
          IN  /\ resp' = r
              /\ completed' =
                    IF r.http = 200 /\ r.status = "completed" /\ id \notin DOMAIN completed
                    THEN [k \in DOMAIN completed \cup {id} |->
                             IF k = id THEN r.results ELSE completed[k]]
                    ELSE completed
    /\ UNCHANGED <<now, pc, loc, jobs, generated, returned, nReturned, menuVars, storeVars>>

----------------------------------------------------------------------------
Empty == [x \in {} |-> 0]

InitCommon ==
    /\ now = 0
    /\ pc = [t \in Threads |-> "idle"]
    /\ loc = [t \in Threads |-> Idle]
    /\ resp = NoResp
    /\ jobs = Empty
    /\ generated = {}
    /\ returned = {}
    /\ nReturned = 0
    /\ completed = Empty
    /\ restaurants = {}
    /\ dishes = {}
    /\ users = Empty
    /\ favorites = Empty
    /\ issued = {}
    /\ resolvedOk = {}
    /\ revoked = {}

Init == InitCommon

Next ==
    \/ TickSecond
    \/ ClockSetBack
    \/ Seed
    \/ \E t \in Threads : ScanBegin(t)
    \/ \E t \in Threads : ScanStore(t)
    \/ GetScanResult

Spec == Init /\ [][Next]_vars

\* The same registry on a host whose clock is never set back.
NextSteadyClock ==
    \/ TickSecond
    \/ Seed
    \/ \E t \in Threads : ScanBegin(t)
    \/ \E t \in Threads : ScanStore(t)
    \/ GetScanResult

SpecSteadyClock == Init /\ [][NextSteadyClock]_vars

----------------------------------------------------------------------------
(* The job registry's claims, under Spec *)

Threshold == JOB_THRESHOLD_SECONDS * Res
ReturnedIds == {r.job_id : r \in returned}

\* C1: for every job scan_menu created with payload R at time c, a poll at
\* time n answers 200 "processing" without results when n - c < 3 s, and 200
\* "completed" with results R when n - c >= 3 s; a known job gets no other status.
C1_StatusIsAFunctionOfElapsed ==
    /\ \A r \in returned :
          LET p == PollResponse(r.job_id)
              c == r.job.created_at
              R == r.job.results
          IN  /\ now - c < Threshold =>
                    p.http = 200 /\ p.status = "processing" /\ ~p.has_results
              /\ now - c >= Threshold =>
                    p.http = 200 /\ p.status = "completed" /\ p.has_results
                    /\ p.results = R
    /\ (resp.op = "poll" /\ resp.job_id \in ReturnedIds) =>
          resp.http = 200 /\ resp.status \in {"processing", "completed"}

\* A poll at exactly the threshold has just answered Completed with a
\* non-empty payload.
C1_Witness ==
    /\ resp.op = "poll" /\ resp.status = "completed" /\ resp.results # <<>>
    /\ resp.job_id \in DOMAIN jobs
    /\ now - jobs[resp.job_id].created_at = Threshold
    /\ resp = PollResponse(resp.job_id)

\* C2: once a poll of a job has reported Completed with results R, every later
\* poll of that job reports Completed with the same R.
C2_CompletedIsStable ==
    (resp.op = "poll" /\ resp.job_id \in DOMAIN completed) =>
        /\ resp.status = "completed"
        /\ resp.has_results
        /\ resp.results = completed[resp.job_id]

\* C3: concurrent scan_menu calls return pairwise distinct ids, no store
\* overwrites or loses another job's entry, and a poll finds every returned id.
C3_ConcurrentCreatesKeepEveryJob ==
    /\ Cardinality(ReturnedIds) = nReturned
    /\ \A r \in returned :
          /\ r.job_id \in DOMAIN jobs
          /\ jobs[r.job_id] = r.job
          /\ PollResponse(r.job_id).http = 200
    /\ (resp.op = "poll" /\ resp.job_id \in ReturnedIds) => resp.http # 404

\* Two scan_menu calls overlapped and both ids were returned.
C3_Witness ==
    /\ resp.op = "scan" /\ resp.overlapped
    /\ nReturned = 2
    /\ Cardinality(DOMAIN jobs) = 2

\* C4: a poll with an id scan_menu never returned answers 404, whatever the
\* time and the other requests, and adds no entry to the jobs map.
C4_UnknownIdIsNotFound ==
    /\ [](\A id \in (JobIdSpace \cup {StaleId}) \ ReturnedIds :
             PollResponse(id).http = 404)
    /\ []((resp.op = "poll" /\ resp.job_id \notin ReturnedIds) => resp.http = 404)
    /\ [][(resp'.op = "poll" /\ resp'.http = 404) => jobs' = jobs]_vars

\* An unknown id was polled, after time had passed and jobs had been created.
C4_Witness ==
    /\ resp.op = "poll" /\ resp.http = 404
    /\ resp.job_id \notin ReturnedIds
    /\ nReturned >= 1
    /\ now >= Threshold

----------------------------------------------------------------------------
(* The token service (auth.py) *)

\* A claims mapping is a function from claim names to values.  A subject is
\* <<"str", text>> (a string) or <<"int", text>> (a JSON number).
StrSub(text) == <<"str", text>>
IntSub(text) == <<"int", text>>

\* str(user.id) and int(user_id) on the ids of the model: decimal numerals.
Numerals == <<"1", "2", "3", "4", "5", "6", "7", "8", "9">>
Str(i) == Numerals[i]
ValueError == 0 - 1
ParseInt(text) ==
    IF \E i \in DOMAIN Numerals : Numerals[i] = text
    THEN CHOOSE i \in DOMAIN Numerals : Numerals[i] = text
    ELSE ValueError

\* expires_delta is Optional: <<>> is None, <<d>> a timedelta of d ticks.
\* `if expires_delta is None`: timedelta(minutes=ACCESS_TOKEN_EXPIRE_MINUTES).
NoDelta == <<>>
DefaultDelta == ACCESS_TOKEN_EXPIRE_MINUTES * 60 * Res

\* jwt.encode turns a datetime exp into timegm(exp.utctimetuple()): whole
\* seconds, the fraction dropped.
NumericDate(ticks) == ticks \div Res

\* to_encode = data.copy(); to_encode.update({"exp": expire})
WithExp(data, expire) ==
    [k \in DOMAIN data \cup {"exp"} |-> IF k = "exp" THEN expire ELSE data[k]]

\* create_access_token(data, expires_delta), called when the clock reads `at`.
CreateAccessToken(data, delta, at) ==
    LET expires_delta == IF delta = NoDelta THEN DefaultDelta ELSE delta[1]
        expire == at + expires_delta
        to_encode == WithExp(data, NumericDate(expire))
    IN  [claims |-> to_encode, sig |-> "valid"]

\* jwt.decode's expiry check: exp < now, both in whole seconds.
ExpiredNever(exp, at) == FALSE
Expired(exp, at) == exp < NumericDate(at)

\* decode_access_token(token), called when the clock reads `at`: the payload,
\* or None for any JWTError (bad signature, expired, subject not a string).
NoPayload == [ok |-> FALSE, payload |-> [x \in {} |-> 0]]
DecodeAccessToken(token, at) ==
    IF token.sig # "valid" THEN NoPayload
    ELSE IF "exp" \in DOMAIN token.claims /\ Expired(token.claims["exp"], at)
    THEN NoPayload
    ELSE IF "sub" \in DOMAIN token.claims /\ token.claims["sub"][1] # "str"
    THEN NoPayload
    ELSE [ok |-> TRUE, payload |-> token.claims]

\* The token with one character altered: the signature no longer matches.
Tampered(token) == [token EXCEPT !.sig = "invalid"]

TokenSubjects == {StrSub("1"), StrSub("abc")}
CallerClaims ==
    {[k \in {"sub"} |-> s] : s \in TokenSubjects}
    \cup {[k \in {"sub", "exp"} |-> IF k = "sub" THEN StrSub("1") ELSE 0]}

\* A caller issues a token for claims `data` with lifetime `delta`.
IssueToken ==
    /\ Cardinality(issued) < MaxTokens
    /\ \E data \in CallerClaims, delta \in {<<d>> : d \in 0..MaxTtl} \cup {NoDelta} :
          LET tok == CreateAccessToken(data, delta, now)
          IN  /\ issued' = issued \cup
                    {[token |-> tok, sub |-> data["sub"], iat |-> now,
                      caller_exp |-> "exp" \in DOMAIN data,
                      ttl |-> IF delta = NoDelta THEN DefaultDelta ELSE delta[1]]}
              /\ resp' = [op |-> "issue", sub |-> data["sub"]]
    /\ UNCHANGED <<now, pc, loc, jobVars, menuVars, users, favorites, resolvedOk, revoked>>

\* A caller validates an issued token, or a tampered copy of it.
ValidateToken ==
    /\ \E e \in issued, tamper \in BOOLEAN :
          LET tok == IF tamper THEN Tampered(e.token) ELSE e.token
          IN  resp' = [op |-> "decode", token |-> tok,
                       result |-> DecodeAccessToken(tok, now)]
    /\ UNCHANGED <<now, pc, loc, jobVars, menuVars, storeVars>>

InitToken == InitCommon

NextToken ==
    \/ Tick
    \/ ClockSetBack
    \/ IssueToken
    \/ ValidateToken

SpecToken == InitToken /\ [][NextToken]_vars

\* C5 as stated: a token for subject s with lifetime t validates with sub = s
\* immediately after issuance, is invalid whenever the clock has advanced by
\* more than t, and carries exp = issue time + t (as a whole-second date)
\* whatever exp the caller gave.
C5_InvalidOnceClockPassesTtl ==
    \A e \in issued :
        LET d == DecodeAccessToken(e.token, now)
        IN  /\ now = e.iat => d.ok /\ d.payload["sub"] = e.sub
            /\ now - e.iat > e.ttl => ~d.ok
            /\ e.token.claims["exp"] = (e.iat + e.ttl) \div Res

\* C5 as amended: exp is issue time + t cut to whole seconds, whatever exp the
\* caller gave; the token validates with sub = s while the clock has advanced by
\* no more than t, and is invalid exactly when the clock's whole second is past
\* exp, which is certain once the clock has advanced by t plus one second.
C5_InvalidOnceSecondPassesExp ==
    \A e \in issued :
        LET d == DecodeAccessToken(e.token, now)
        IN  /\ e.token.claims["exp"] = (e.iat + e.ttl) \div Res
            /\ now - e.iat <= e.ttl => d.ok /\ d.payload["sub"] = e.sub
            /\ d.ok <=> now \div Res <= e.token.claims["exp"]
            /\ now - e.iat >= e.ttl + Res => ~d.ok
            /\ ~DecodeAccessToken(Tampered(e.token), now).ok

\* A token whose caller supplied an exp of its own was validated more than its
\* lifetime after issuance and found invalid.
C5_Witness ==
    /\ resp.op = "decode" /\ ~resp.result.ok /\ resp.token.sig = "valid"
    /\ \E e \in issued :
          /\ e.token = resp.token
          /\ e.caller_exp
          /\ now - e.iat >= e.ttl + Res
          /\ resp.result = DecodeAccessToken(e.token, now)

----------------------------------------------------------------------------
(* The relational store and the credential hasher *)

Emails == {"a@x", "b@x"}
Passwords == {"p", "q"}
Salts == {"s1"}

\* pwd_context.hash(password): bcrypt with a fresh salt; the digest is a
\* function of the salt and the password.
GetPasswordHash(password, salt) ==
    [scheme |-> "bcrypt", salt |-> salt, digest |-> <<salt, password>>]

\* pwd_context.verify(plain, hashed): re-hash under the embedded salt.
VerifyAnyPassword(password, hashed) == TRUE
VerifyPassword(password, hashed) ==
    hashed = GetPasswordHash(password, hashed.salt)

\* The id the database gives a new row.  The default engine is SQLite
\* (sqlite:///./app.db) and the id columns are plain INTEGER PRIMARY KEY without
\* AUTOINCREMENT: the new rowid is one more than the largest rowid now in the
\* table, so the id of a deleted last row is given out again.
NewRowId(table) ==
    IF DOMAIN table = {} THEN 1
    ELSE 1 + CHOOSE m \in DOMAIN table : \A k \in DOMAIN table : k <= m

\* db.query(models.User).filter(models.User.email == email).first()
UsersByEmail(email) == {id \in DOMAIN users : users[id].email = email}

\* users.email is declared unique=True: the INSERT of a second row with the
\* same email fails with IntegrityError at db.commit().
EmailUnique(email) == UsersByEmail(email) = {}

NoToken == [claims |-> [x \in {} |-> 0], sig |-> "none"]

IssuedEntry(tok, id) ==
    [token |-> tok, sub |-> StrSub(Str(id)), iat |-> now, ttl |-> DefaultDelta,
     caller_exp |-> FALSE]

\* signup, the lookup: existing_user = db.query(...).first(); 400 if found.
SignupCheck(t) ==
    /\ pc[t] = "idle"
    /\ \E email \in Emails, password \in Passwords :
          IF UsersByEmail(email) # {}
          THEN /\ resp' = [op |-> "signup", http |-> 400, email |-> email,
                           token |-> NoToken, user_id |-> 0]
               /\ UNCHANGED <<pc, loc>>
          ELSE /\ pc' = [pc EXCEPT ![t] = "signup_commit"]
               /\ loc' = [loc EXCEPT ![t] = [op |-> "signup", email |-> email,
                                             password |-> password, user_id |-> 0]]
               /\ UNCHANGED resp
    /\ UNCHANGED <<now, jobVars, menuVars, storeVars>>

\* signup, the insert: db.add(user); db.commit().  An IntegrityError is not
\* caught: the request ends as a 500.
SignupCommit(t) ==
    /\ pc[t] = "signup_commit"
    /\ EmailUnique(loc[t].email) => NewRowId(users) <= MaxUserId
    /\ IF EmailUnique(loc[t].email)
       THEN \E salt \in Salts :
               LET id == NewRowId(users)
                   row == [email |-> loc[t].email,
                           hashed_password |-> GetPasswordHash(loc[t].password, salt)]
               IN  /\ users' = [k \in DOMAIN users \cup {id} |->
                                   IF k = id THEN row ELSE users[k]]
                   /\ loc' = [loc EXCEPT ![t] = [op |-> "signup", email |-> loc[t].email,
                                                 user_id |-> id]]
                   /\ pc' = [pc EXCEPT ![t] = "signup_refresh"]
                   /\ UNCHANGED resp
       ELSE /\ resp' = [op |-> "signup", http |-> 500, email |-> loc[t].email,
                        token |-> NoToken, user_id |-> 0]
            /\ pc' = [pc EXCEPT ![t] = "idle"]
            /\ loc' = [loc EXCEPT ![t] = Idle]
            /\ UNCHANGED users
    /\ UNCHANGED <<now, jobVars, menuVars, favorites, issued, resolvedOk, revoked>>

\* signup, the rest: db.refresh(user) re-reads the row by primary key (and
\* raises if it is gone), then the token is made from user.id and returned.
SignupRefresh(t) ==
    /\ pc[t] = "signup_refresh"
    /\ IF loc[t].user_id \in DOMAIN users
       THEN LET tok == CreateAccessToken([k \in {"sub"} |-> StrSub(Str(loc[t].user_id))],
                                         NoDelta, now)
            IN  /\ resp' = [op |-> "signup", http |-> 201, email |-> loc[t].email,
                            token |-> tok, user_id |-> loc[t].user_id]
                /\ issued' = issued \cup {IssuedEntry(tok, loc[t].user_id)}
       ELSE /\ resp' = [op |-> "signup", http |-> 500, email |-> loc[t].email,
                        token |-> NoToken, user_id |-> loc[t].user_id]
            /\ UNCHANGED issued
    /\ pc' = [pc EXCEPT ![t] = "idle"]
    /\ loc' = [loc EXCEPT ![t] = Idle]
    /\ UNCHANGED <<now, jobVars, menuVars, users, favorites, resolvedOk, revoked>>

\* login: one lookup, verify_password, then the token.
LoginResponse(email, password) ==
    LET found == UsersByEmail(email)
    IN  IF found = {}
           \/ ~VerifyPassword(password, users[CHOOSE id \in found : TRUE].hashed_password)
        THEN [op |-> "login", http |-> 400, token |-> NoToken, user_id |-> 0]
        ELSE LET id == CHOOSE u \in found : TRUE
             IN  [op |-> "login", http |-> 200, user_id |-> id,
                  token |-> CreateAccessToken([k \in {"sub"} |-> StrSub(Str(id))],
                                              NoDelta, now)]

Login ==
    /\ \E email \in Emails, password \in Passwords :
          LET r == LoginResponse(email, password)
          IN  /\ resp' = r
              /\ issued' = IF r.http = 200
                            THEN issued \cup {IssuedEntry(r.token, r.user_id)}
                            ELSE issued
    /\ UNCHANGED <<now, pc, loc, jobVars, menuVars, users, favorites, resolvedOk, revoked>>

\* A user row is deleted from the store (no handler does it; the spec's
\* "deleted after token issuance").  The ORM cascade "all, delete-orphan"
\* deletes the user's favorites with it.
DeleteUser ==
    /\ \E id \in DOMAIN users :
          /\ users' = [k \in DOMAIN users \ {id} |-> users[k]]
          /\ favorites' = [f \in {g \in DOMAIN favorites : favorites[g].user_id # id}
                              |-> favorites[f]]
          /\ revoked' = revoked \cup
                {tok \in resolvedOk : tok.claims["sub"] = StrSub(Str(id))}
    /\ UNCHANGED <<now, pc, loc, resp, jobVars, menuVars, issued, resolvedOk>>

----------------------------------------------------------------------------
(* The identity resolver (dependencies.py) *)

\* get_current_user(db, token): [http, user_id]; 500 is an exception that no
\* handler catches (int() raising ValueError).
GetCurrentUser(token) ==
    LET decoded == DecodeAccessToken(token, now)
    IN  IF ~decoded.ok THEN [http |-> 401, user_id |-> 0]
        ELSE IF "sub" \notin DOMAIN decoded.payload THEN [http |-> 401, user_id |-> 0]
        ELSE LET user_id == ParseInt(decoded.payload["sub"][2])
             IN  IF user_id = ValueError THEN [http |-> 500, user_id |-> 0]
                 ELSE IF user_id \notin DOMAIN users THEN [http |-> 401, user_id |-> 0]
                 ELSE [http |-> 200, user_id |-> user_id]

\* Tokens a client can present besides those the handlers issued: signed with
\* the key but without sub, with a sub that is no numeral, with a numeric
\* (non-string) sub, with the id of no stored user, or expired.
CraftedTokens ==
    {CreateAccessToken([k \in {"sub"} |-> sub], NoDelta, now) :
        sub \in {StrSub("abc"), IntSub("1"), StrSub(Str(MaxUserId + 1))}}
    \cup {CreateAccessToken([k \in {} |-> 0], NoDelta, now)}
    \cup {CreateAccessToken([k \in {"sub"} |-> StrSub("1")], <<0 - Res>>, now)}

PresentableTokens ==
    {e.token : e \in issued} \cup {Tampered(e.token) : e \in issued} \cup CraftedTokens

\* GET /api/me: the resolver's outcome is the response.
ReadUsersMe ==
    /\ \E tok \in PresentableTokens :
          LET r == GetCurrentUser(tok)
          IN  /\ resp' = [op |-> "resolve", http |-> r.http, user_id |-> r.user_id,
                          token |-> tok, after_delete |-> tok \in revoked]
              /\ resolvedOk' = IF r.http = 200 THEN resolvedOk \cup {tok} ELSE resolvedOk
    /\ UNCHANGED <<now, pc, loc, jobVars, menuVars, users, favorites, issued, revoked>>

InitAuth == InitCommon

NextAuth ==
    \/ \E t \in Threads : SignupCheck(t)
    \/ \E t \in Threads : SignupCommit(t)
    \/ \E t \in Threads : SignupRefresh(t)
    \/ Login
    \/ DeleteUser
    \/ ReadUsersMe

SpecAuth == InitAuth /\ [][NextAuth]_vars

\* Token issuance alone: the handlers that issue tokens and the deletion of rows.
InitIssue == InitCommon

NextIssue ==
    \/ \E t \in Threads : SignupCheck(t)
    \/ \E t \in Threads : SignupCommit(t)
    \/ \E t \in Threads : SignupRefresh(t)
    \/ Login
    \/ DeleteUser

SpecIssue == InitIssue /\ [][NextIssue]_vars

----------------------------------------------------------------------------
(* The identity resolver's claims, under SpecAuth *)

\* C6: every get_current_user call either returns the stored user whose id is
\* the token's sub or signals 401; a token that fails validation, lacks sub,
\* has a sub that is no user id or names no stored user gets 401, and the
\* resolver produces no other error.
C6_ResolverReturnsUserOr401 ==
    resp.op = "resolve" =>
        \/ /\ resp.http = 200
           /\ resp.token.claims["sub"] = StrSub(Str(resp.user_id))
        \/ resp.http = 401

\* C7: a resolve performed after the user row of a token that resolved before
\* was deleted signals 401, although the token is unexpired and correctly signed.
C7_DeletedSubjectIsUnauthenticated ==
    (resp.op = "resolve" /\ resp.after_delete) => resp.http = 401

----------------------------------------------------------------------------
(* Signup's and login's claims, under SpecIssue *)

\* C8: a signup for an email that has an account gets 400, creates no row and
\* gets no token; of the signups racing for one email one creates the account
\* and every other one gets the 400; no two user rows share an email.
C8_DuplicateSignupIsConflict ==
    /\ resp.op = "signup" =>
          \/ resp.user_id # 0
          \/ resp.http = 400 /\ resp.token = NoToken
    /\ \A i, j \in DOMAIN users : users[i].email = users[j].email => i = j

\* The password a stored hash was made from.
PlainOf(hashed) == hashed.digest[2]

\* C9: a token is issued only for the id of a user row that is in the store
\* at the moment of issuance; login issues one exactly when a user with the
\* email exists and the password is the one its hash was made from; a failed
\* login answers 400 and issues nothing.
C9_TokensNameCommittedUsers ==
    /\ [][\A e \in issued' \ issued :
             /\ ParseInt(e.sub[2]) \in DOMAIN users
             /\ e.token.sig = "valid"
             /\ e.token.claims["sub"] = e.sub]_vars
    /\ [](\A email \in Emails, password \in Passwords :
             LET r == LoginResponse(email, password)
                 ok == \E id \in DOMAIN users :
                          /\ users[id].email = email
                          /\ PlainOf(users[id].hashed_password) = password
             IN  /\ ok => /\ r.http = 200
                          /\ users[r.user_id].email = email
                          /\ r.token.claims["sub"] = StrSub(Str(r.user_id))
                 /\ ~ok => r.http = 400 /\ r.token = NoToken)
    /\ []((resp.op \in {"signup", "login"} /\ resp.token # NoToken) =>
             /\ resp.http \in {200, 201}
             /\ \E e \in issued : e.token = resp.token /\ e.sub = StrSub(Str(resp.user_id)))
    /\ [][(resp'.op = "login" /\ resp'.http = 400) => issued' = issued]_vars

\* A login has just been accepted for a user that signup created, while a
\* wrong password for the same account is refused.
C9_Witness ==
    /\ resp.op = "login" /\ resp.http = 200
    /\ resp.user_id \in DOMAIN users
    /\ \E e \in issued : e.token = resp.token
    /\ \E password \in Passwords :
          LoginResponse(users[resp.user_id].email, password).http = 400

----------------------------------------------------------------------------
(* add_favorite *)

\* The dish ids requested: two seeded dishes and one that is never stored.
RequestedDishes == {1, SEED_DISHES, SEED_DISHES + 1}

\* db.query(models.Favorite).filter(user_id == ..., dish_id == ...).first()
FavoritesOf(user_id, dish_id) ==
    {f \in DOMAIN favorites :
        favorites[f].user_id = user_id /\ favorites[f].dish_id = dish_id}

FavResponse(http, fav_id, user_id, dish_id) ==
    [op |-> "favorite", http |-> http, fav_id |-> fav_id,
     user_id |-> user_id, dish_id |-> dish_id]

\* add_favorite, the reads: the resolver (a dependency: the handler does not
\* run unless it returns a user), the dish lookup, the lookup of an existing row.
AddFavoriteCheck(t) ==
    /\ pc[t] = "idle"
    /\ \E tok \in {e.token : e \in issued}, dish_id \in RequestedDishes :
          LET r == GetCurrentUser(tok)
              existing == FavoritesOf(r.user_id, dish_id)
          IN  IF r.http # 200
              THEN /\ resp' = FavResponse(r.http, 0, 0, dish_id)
                   /\ UNCHANGED <<pc, loc>>
              ELSE IF dish_id \notin dishes
              THEN /\ resp' = FavResponse(404, 0, r.user_id, dish_id)
                   /\ UNCHANGED <<pc, loc>>
              ELSE IF existing # {}
              THEN /\ resp' = FavResponse(200, CHOOSE f \in existing :
                                                  \A g \in existing : f <= g,
                                          r.user_id, dish_id)
                   /\ UNCHANGED <<pc, loc>>
              ELSE /\ pc' = [pc EXCEPT ![t] = "fav_commit"]
                   /\ loc' = [loc EXCEPT ![t] = [op |-> "favorite",
                                 user_id |-> r.user_id, dish_id |-> dish_id]]
                   /\ UNCHANGED resp
    /\ UNCHANGED <<now, jobVars, menuVars, storeVars>>

\* add_favorite, the insert: db.add(favorite); db.commit(); db.refresh(favorite).
\* The favorites table declares no uniqueness over (user_id, dish_id).
AddFavoriteCommit(t) ==
    /\ pc[t] = "fav_commit"
    /\ NewRowId(favorites) <= MaxFavId
    /\ LET id == NewRowId(favorites)
           row == [user_id |-> loc[t].user_id, dish_id |-> loc[t].dish_id]
       IN  /\ favorites' = [k \in DOMAIN favorites \cup {id} |->
                               IF k = id THEN row ELSE favorites[k]]
           /\ resp' = FavResponse(200, id, row.user_id, row.dish_id)
    /\ pc' = [pc EXCEPT ![t] = "idle"]
    /\ loc' = [loc EXCEPT ![t] = Idle]
    /\ UNCHANGED <<now, jobVars, menuVars, users, issued, resolvedOk, revoked>>

InitFav == InitCommon

NextFav ==
    \/ Seed
    \/ \E t \in Threads : SignupCheck(t)
    \/ \E t \in Threads : SignupCommit(t)
    \/ \E t \in Threads : SignupRefresh(t)
    \/ \E t \in Threads : AddFavoriteCheck(t)
    \/ \E t \in Threads : AddFavoriteCommit(t)

SpecFav == InitFav /\ [][NextFav]_vars

\* C10: whatever the interleaving of add_favorite requests, the store holds at
\* most one Favorite row per (user_id, dish_id), a request answered 200 names
\* a stored row of that pair, and a request for a dish that is not stored
\* answers 404 and inserts nothing.
C10_OneFavoritePerUserAndDish ==
    /\ \A f, g \in DOMAIN favorites :
          (favorites[f].user_id = favorites[g].user_id
           /\ favorites[f].dish_id = favorites[g].dish_id) => f = g
    /\ (resp.op = "favorite" /\ resp.http = 200) =>
          /\ resp.fav_id \in DOMAIN favorites
          /\ favorites[resp.fav_id] = [user_id |-> resp.user_id, dish_id |-> resp.dish_id]
    /\ \A f \in DOMAIN favorites : favorites[f].dish_id \in 1..SEED_DISHES

====
